---- MODULE Spec2Model ----
(***************************************************************************)
(* wsl-get: the distribution provisioning pipeline.                        *)
(*                                                                         *)
(* One run of the command-line tool (`install` or `download`) as a state   *)
(* machine.  Every external program (docker, wsl.exe) and every host call  *)
(* (WslLaunchInteractive, WslGetDistributionConfiguration, ...) is a step  *)
(* whose outcome is chosen nondeterministically among the outcomes the     *)
(* code distinguishes: the process cannot be started, it exits nonzero,    *)
(* it succeeds; the host call fails, the guest command exits nonzero, it   *)
(* exits zero.  `issued` is the log of every command the run attempted.    *)
(***************************************************************************)
EXTENDS Naturals, Sequences, FiniteSets

VARIABLES
    pc,             \* position of the run in main.rs / wsl.rs
    cmd,            \* the subcommand: "install" or "download"
    no_user,        \* install --no-user
    install_name,   \* the name the distribution is installed under
    registry,       \* host: the set of registered distribution names
    result,         \* what the process ends with: "running", "Ok", an error, "panic"
    ret,            \* the value a function is returning while its deferred cleanup runs
    pkgRet,         \* what get_distribution_rootfs_tar_gz returned ("none" before)
    cuRet,          \* what create_user returned ("none" before)
    issued,         \* log of the commands attempted: [c, a, r]
    warnings,       \* lines written to stderr by the tool
    user_name,      \* answer to the username prompt
    password,       \* answer to the password prompt
    guest,          \* guest state of the distribution: accounts, passwords, homes, groups
    shellsPresent,  \* guest: which shell candidates exist (set by the import)
    groupsPresent,  \* guest: which of wheel / sudo exist (set by the import)
    cand,           \* lookup_shell: index of the candidate being probed
    bash_path,      \* lookup_shell's result
    complete,       \* create_user's completion flag
    cuPend,         \* the value create_user is returning while its rollback guard runs
    containers,     \* docker: the materialized containers
    id,             \* the container id returned by docker create
    temp_file,      \* the pipeline's NamedTempFile: "none", "open", "deleted", "persisted", "in_error"
    dest,           \* the file at the caller-supplied destination path
    child,          \* the docker export process
    pipe,           \* chunks in the export process's stdout pipe
    remaining,      \* chunks the export process still has to write
    gz,             \* chunks compressed into the temporary file
    conf,           \* host: the distribution's configuration
    read_conf,      \* what get_distribution_configuration returned
    uid,            \* what query_uid returned
    heap,           \* host memory handed out by WslGetDistributionConfiguration
    env_vars,       \* get_distribution_configuration: the owned copies collected
    gi,             \* get_distribution_configuration: loop index
    uaf,            \* a host pointer was read after it was freed
    peer,           \* position of a second `install` of the same name ("none": there is none)
    imports         \* the imports attempted: [by, registered, r]

vars == <<pc, cmd, no_user, install_name, registry, result, ret, pkgRet, cuRet,
          issued, warnings, user_name, password, guest, shellsPresent,
          groupsPresent, cand, bash_path, complete, cuPend, containers, id, temp_file,
          dest, child, pipe, remaining, gz, conf, read_conf, uid,
          heap, env_vars, gi, uaf, peer, imports>>

memVars     == <<heap, env_vars, gi, uaf>>
hostVars    == <<registry, conf, read_conf, uid, memVars>>
guestVars   == <<guest, cand, bash_path, complete, user_name, password, cuPend>>
dockerVars  == <<containers, id, temp_file, dest, child, pipe, remaining, gz>>
inputVars   == <<cmd, no_user, install_name>>
peerVars    == <<peer, imports>>
imageVars   == <<shellsPresent, groupsPresent>>

----------------------------------------------------------------------------
(* Bounds and input sets *)

MaxChunks == 2          \* most chunks a docker export writes
PipeCap   == 1          \* capacity of the stdout pipe, in chunks
MaxEnv    == 2          \* most default environment variables of a distribution

Names        == {"ubuntu-20.04"}
UserNames    == {"alice", "bob"}
Passwords    == {"pw1"}
ContainerIds == {"abc123", "def456"}
FlagSets     == {0, 7}
\* What `id -u` prints, parsed as u64: the high and the low 32 bits
Uids         == {[hi |-> 0, lo |-> 1000], [hi |-> 0, lo |-> 1001], [hi |-> 1, lo |-> 0]}
None         == "None"

\* Default environment variables as the host stores them (ANSI strings); the
\* second is not valid UTF-8.
EnvStrings   == {"PATH=/usr/bin", "NAME=<93 FA>"}
EnvChoices   == UNION {[1..n -> EnvStrings] : n \in 0..MaxEnv}
DefaultEnv   == <<"PATH=/usr/bin">>
NoConf       == [version |-> 0, default_uid |-> 0, flags |-> 0, env |-> << >>]
HeapInit     == [allocated |-> FALSE, arrFrees |-> 0, strFrees |-> << >>]

\* faulty variant: the candidates in the opposite order
shells_sh_first == <<"/bin/sh", "/usr/bin/sh", "/bin/bash", "/usr/bin/bash">>

\* wsl.rs:315  the fixed preference order of lookup_shell
shells == <<"/usr/bin/bash", "/bin/bash", "/usr/bin/sh", "/bin/sh">>

Range(s) == {s[i] : i \in DOMAIN s}

\* The guest of a freshly imported image: only root, with the image's password.
GuestInit ==
    [users |-> {"root"}, pw |-> [u \in {"root"} |-> "image"], home |-> {}, member |-> {}]

DestInit == [kind |-> "absent", chunks |-> 0]

----------------------------------------------------------------------------
(* The log of issued commands *)

Entry(c, a, r) == [c |-> c, a |-> a, r |-> r]
Log(c, a, r)   == issued' = Append(issued, Entry(c, a, r))
Issued(c)      == {i \in DOMAIN issued : issued[i].c = c}
IssuedR(c, r)  == {i \in DOMAIN issued : issued[i].c = c /\ issued[i].r = r}

----------------------------------------------------------------------------
InitProcess ==
    /\ cmd \in {"install", "download", "set-default-user"}
    /\ no_user \in BOOLEAN
    /\ (cmd # "install" => ~no_user)
    /\ install_name \in Names
    /\ registry \in SUBSET Names
    /\ pc = CASE cmd = "install" -> "is_registered"
              [] cmd = "download" -> "pull"
              [] cmd = "set-default-user" -> "query_uid"
    /\ result = "running"
    /\ ret = "none"
    /\ pkgRet = "none"
    /\ cuRet = "none"
    /\ issued = << >>
    /\ warnings = << >>
    /\ IF cmd = "set-default-user" THEN user_name \in UserNames ELSE user_name = None
    /\ password = None
    /\ guest = GuestInit
    /\ shellsPresent = {}
    /\ groupsPresent = {}
    /\ cand = 1
    /\ bash_path = None
    /\ complete = FALSE
    /\ cuPend = "none"
    /\ containers = {}
    /\ id = None
    /\ temp_file = "none"
    /\ dest = DestInit
    /\ child = "none"
    /\ pipe = 0
    /\ remaining = 0
    /\ gz = 0
    /\ IF cmd = "set-default-user" /\ install_name \in registry
         THEN conf \in [version : {1, 2}, default_uid : {0, 1000},
                        flags : FlagSets, env : EnvChoices]
         ELSE conf = NoConf
    /\ read_conf = NoConf
    /\ uid = [hi |-> 0, lo |-> 0]
    /\ heap = HeapInit
    /\ env_vars = << >>
    /\ gi = 1
    /\ imports = << >>
    /\ uaf = FALSE

\* one process of the tool, and no other
Init == InitProcess /\ peer = "none"

----------------------------------------------------------------------------
(* main.rs: install, up to the packaging *)

\* faulty variant: the name is never found registered
is_distribution_registered_never(name) == FALSE

\* wsl.rs:195-202  is_distribution_registered
is_distribution_registered(name) == name \in registry

\* main.rs:55-57  the precondition check
IsRegisteredCheck ==
    /\ pc = "is_registered"
    /\ IF is_distribution_registered(install_name)
         THEN /\ result' = "Distribution is already registered"
              /\ pc' = "done"
         ELSE /\ pc' = "install_tmp"
              /\ UNCHANGED result
    /\ UNCHANGED <<ret, pkgRet, cuRet, issued, warnings>>
    /\ UNCHANGED <<hostVars, guestVars, dockerVars, inputVars, imageVars, peerVars>>

\* main.rs:63-64  the temporary path the tarball is persisted to
InstallTempFile ==
    /\ pc = "install_tmp"
    /\ \E ok \in BOOLEAN :
         IF ok
           THEN /\ dest' = [kind |-> "empty", chunks |-> 0]
                /\ pc' = "pull"
                /\ UNCHANGED result
           ELSE /\ result' = "io::Error"
                /\ pc' = "done"
                /\ UNCHANGED dest
    /\ UNCHANGED <<ret, pkgRet, cuRet, issued, warnings>>
    /\ UNCHANGED <<hostVars, guestVars, inputVars, imageVars, peerVars>>
    /\ UNCHANGED <<containers, id, temp_file, child, pipe, remaining, gz>>

----------------------------------------------------------------------------
(* main.rs: get_distribution_rootfs_tar_gz *)

\* faulty variant: install registers without asking for the user first
packaging_return_unprompted(r) ==
    /\ pkgRet' = r
    /\ IF cmd = "install" /\ r = "Ok"
         THEN /\ pc' = "create_dir"
              /\ UNCHANGED result
         ELSE /\ pc' = "done"
              /\ result' = r

\* The function hands r to its caller: download ends with it (main.rs:191),
\* install goes on to the prompts or the registration when it is Ok
\* (main.rs:66-89).
packaging_return(r) ==
    /\ pkgRet' = r
    /\ IF cmd = "install" /\ r = "Ok"
         THEN /\ pc' = IF no_user THEN "create_dir" ELSE "prompt_user"
              /\ UNCHANGED result
         ELSE /\ pc' = "done"
              /\ result' = r

\* faulty variant: the exit status of docker pull is not examined
pull_failed_never(r) == FALSE

\* main.rs:111  if !stat.success()
pull_failed(r) == r # "ok"

\* main.rs:106-113
DockerPull ==
    /\ pc = "pull"
    /\ \E r \in {"ok", "nonzero", "spawn_fail"} :
         /\ Log("docker pull", None, r)
         /\ IF r = "spawn_fail"
              THEN packaging_return("io::Error")
              ELSE IF pull_failed(r)
                     THEN packaging_return("Failed to pull distribution")
                     ELSE /\ pc' = "create"
                          /\ UNCHANGED <<result, pkgRet>>
    /\ UNCHANGED <<ret, cuRet, warnings>>
    /\ UNCHANGED <<hostVars, guestVars, dockerVars, inputVars, imageVars, peerVars>>

\* main.rs:117-138  docker create, the id, and the scope guard being armed
DockerCreate ==
    /\ pc = "create"
    /\ \E r \in {"ok", "bad_utf8", "nonzero", "spawn_fail"} :
         /\ Log("docker create", None, r)
         /\ CASE r = "spawn_fail" ->
                   /\ packaging_return("io::Error")
                   /\ UNCHANGED <<containers, id>>
              [] r = "nonzero" ->
                   /\ packaging_return("Failed to create container")
                   /\ UNCHANGED <<containers, id>>
              [] r = "bad_utf8" ->
                   \* the container exists, its id could not be decoded
                   /\ \E c \in ContainerIds : containers' = containers \cup {c}
                   /\ packaging_return("FromUtf8Error")
                   /\ UNCHANGED id
              [] r = "ok" ->
                   /\ \E c \in ContainerIds :
                        /\ containers' = containers \cup {c}
                        /\ id' = c
                   /\ pc' = "temp_file"
                   /\ UNCHANGED <<result, pkgRet>>
    /\ UNCHANGED <<ret, cuRet, warnings>>
    /\ UNCHANGED <<hostVars, guestVars, inputVars, imageVars, peerVars>>
    /\ UNCHANGED <<temp_file, dest, child, pipe, remaining, gz>>

\* main.rs:140
NewTempFile ==
    /\ pc = "temp_file"
    /\ \E ok \in BOOLEAN :
         IF ok
           THEN /\ temp_file' = "open"
                /\ pc' = "export"
                /\ UNCHANGED ret
           ELSE /\ ret' = "io::Error"
                /\ pc' = "rm"
                /\ UNCHANGED temp_file
    /\ UNCHANGED <<result, pkgRet, cuRet, issued, warnings>>
    /\ UNCHANGED <<hostVars, guestVars, inputVars, imageVars, peerVars>>
    /\ UNCHANGED <<containers, id, dest, child, pipe, remaining, gz>>

\* main.rs:142-146  spawn docker export with a piped stdout
ExportSpawn ==
    /\ pc = "export"
    /\ \E r \in {"ok", "spawn_fail"} :
         /\ Log("docker export", id, r)
         /\ IF r = "ok"
              THEN /\ child' = "running"
                   /\ \E n \in 0..MaxChunks : remaining' = n
                   /\ pc' = "file_create"
                   /\ UNCHANGED <<ret, temp_file>>
              ELSE /\ ret' = "io::Error"
                   /\ temp_file' = "deleted"
                   /\ pc' = "rm"
                   /\ UNCHANGED <<child, remaining>>
    /\ UNCHANGED <<result, pkgRet, cuRet, warnings>>
    /\ UNCHANGED <<hostVars, guestVars, inputVars, imageVars, peerVars>>
    /\ UNCHANGED <<containers, id, dest, pipe, gz>>

\* main.rs:152  File::create(&mut temp_file)?
FileCreate ==
    /\ pc = "file_create"
    /\ \E ok \in BOOLEAN :
         IF ok
           THEN /\ pc' = "copy"
                /\ UNCHANGED <<ret, temp_file>>
           ELSE /\ ret' = "io::Error"
                /\ temp_file' = "deleted"
                /\ pc' = "rm"
    /\ UNCHANGED <<result, pkgRet, cuRet, issued, warnings>>
    /\ UNCHANGED <<hostVars, guestVars, inputVars, imageVars, peerVars>>
    /\ UNCHANGED <<containers, id, dest, child, pipe, remaining, gz>>

\* The read end of the pipe is held from the spawn until the function leaves.
PipeOpen == pc \in {"file_create", "copy", "wait", "persist"}

\* docker export writes one chunk into its stdout pipe
ExportWrite ==
    /\ child = "running"
    /\ PipeOpen
    /\ remaining > 0
    /\ pipe < PipeCap
    /\ pipe' = pipe + 1
    /\ remaining' = remaining - 1
    /\ UNCHANGED <<pc, result, ret, pkgRet, cuRet, issued, warnings>>
    /\ UNCHANGED <<hostVars, guestVars, inputVars, imageVars, peerVars>>
    /\ UNCHANGED <<containers, id, temp_file, dest, child, gz>>

\* docker export exits: with success once everything is written, with a
\* failure at any time (also when its pipe was closed under it)
ExportExit ==
    /\ child = "running"
    /\ \E st \in {"exited_ok", "exited_fail"} :
         /\ (st = "exited_ok" => remaining = 0)
         /\ child' = st
    /\ UNCHANGED <<pc, result, ret, pkgRet, cuRet, issued, warnings>>
    /\ UNCHANGED <<hostVars, guestVars, inputVars, imageVars, peerVars>>
    /\ UNCHANGED <<containers, id, temp_file, dest, pipe, remaining, gz>>

\* faulty variant: the output is read only once the process has exited
can_read_after_exit(p) == p > 0 /\ child # "running"

\* main.rs:150-153  io::copy reads as soon as the pipe holds data
can_read(p) == p > 0

\* main.rs:150-153  io::copy, one chunk: read it from the pipe, compress it
\* into the temporary file; either side can fail with an I/O error
CopyChunk ==
    /\ pc = "copy"
    /\ can_read(pipe)
    /\ \E ok \in BOOLEAN :
         IF ok
           THEN /\ pipe' = pipe - 1
                /\ gz' = gz + 1
                /\ UNCHANGED <<pc, ret, temp_file>>
           ELSE /\ ret' = "io::Error"
                /\ temp_file' = "deleted"
                /\ pc' = "rm"
                /\ UNCHANGED <<pipe, gz>>
    /\ UNCHANGED <<result, pkgRet, cuRet, issued, warnings>>
    /\ UNCHANGED <<hostVars, guestVars, inputVars, imageVars, peerVars>>
    /\ UNCHANGED <<containers, id, dest, child, remaining>>

\* main.rs:150-153  io::copy sees the end of the stream
CopyEOF ==
    /\ pc = "copy"
    /\ pipe = 0
    /\ child \in {"exited_ok", "exited_fail"}
    /\ pc' = "wait"
    /\ UNCHANGED <<result, ret, pkgRet, cuRet, issued, warnings>>
    /\ UNCHANGED <<hostVars, guestVars, dockerVars, inputVars, imageVars, peerVars>>

\* faulty variant: the exit status of docker export is not examined
export_failed_never(st) == FALSE

\* main.rs:155  if !child.wait()?.success()
export_failed(st) == st # "exited_ok"

\* main.rs:155-157  child.wait()
ChildWait ==
    /\ pc = "wait"
    /\ child \in {"exited_ok", "exited_fail"}
    /\ \E ok \in BOOLEAN :
         IF ~ok
           THEN /\ ret' = "io::Error"
                /\ temp_file' = "deleted"
                /\ pc' = "rm"
                /\ UNCHANGED child
           ELSE /\ child' = IF child = "exited_ok" THEN "reaped_ok" ELSE "reaped_fail"
                /\ IF export_failed(child)
                     THEN /\ ret' = "Failed to save distribution tarball"
                          /\ temp_file' = "deleted"
                          /\ pc' = "rm"
                     ELSE /\ pc' = "persist"
                          /\ UNCHANGED <<ret, temp_file>>
    /\ UNCHANGED <<result, pkgRet, cuRet, issued, warnings>>
    /\ UNCHANGED <<hostVars, guestVars, inputVars, imageVars, peerVars>>
    /\ UNCHANGED <<containers, id, dest, pipe, remaining, gz>>

\* main.rs:159-161  temp_file.persist(path)
Persist ==
    /\ pc = "persist"
    /\ \E ok \in BOOLEAN :
         IF ok
           THEN /\ dest' = [kind |-> "tarball", chunks |-> gz]
                /\ temp_file' = "persisted"
                /\ ret' = "Ok"
           ELSE \* the PersistError carries the temporary file with it
                /\ temp_file' = "in_error"
                /\ ret' = "PersistError"
                /\ UNCHANGED dest
    /\ pc' = "rm"
    /\ UNCHANGED <<result, pkgRet, cuRet, issued, warnings>>
    /\ UNCHANGED <<hostVars, guestVars, inputVars, imageVars, peerVars>>
    /\ UNCHANGED <<containers, id, child, pipe, remaining, gz>>

\* faulty variant: docker rm is given another container's id
rm_target_other(c) == CHOOSE d \in ContainerIds : d # c

\* main.rs:131  .arg(&id)
rm_target(c) == c

\* main.rs:128-138  the deferred docker rm, then the return to the caller
DockerRm ==
    /\ pc = "rm"
    /\ \E r \in {"ok", "nonzero", "spawn_fail"} :
         /\ Log("docker rm", rm_target(id), r)
         /\ CASE r = "spawn_fail" ->
                   \* .output().unwrap() panics
                   /\ pkgRet' = "panic"
                   /\ result' = "panic"
                   /\ pc' = "done"
                   /\ UNCHANGED <<containers, warnings>>
              [] r = "nonzero" ->
                   /\ warnings' = Append(warnings, "Failed to remove container")
                   /\ packaging_return(ret)
                   /\ UNCHANGED containers
              [] r = "ok" ->
                   /\ containers' = containers \ {rm_target(id)}
                   /\ packaging_return(ret)
                   /\ UNCHANGED warnings
    /\ UNCHANGED <<ret, cuRet>>
    /\ UNCHANGED <<hostVars, guestVars, inputVars, imageVars, peerVars>>
    /\ UNCHANGED <<id, temp_file, dest, child, pipe, remaining, gz>>

----------------------------------------------------------------------------
(* main.rs: install, the prompts and the registration *)

\* main.rs:80-82
PromptUser ==
    /\ pc = "prompt_user"
    /\ \E ok \in BOOLEAN :
         IF ok
           THEN /\ \E u \in UserNames : user_name' = u
                /\ pc' = "prompt_password"
                /\ UNCHANGED result
           ELSE /\ result' = "io::Error"
                /\ pc' = "done"
                /\ UNCHANGED user_name
    /\ UNCHANGED <<ret, pkgRet, cuRet, issued, warnings>>
    /\ UNCHANGED <<hostVars, dockerVars, inputVars, imageVars, peerVars>>
    /\ UNCHANGED <<guest, cand, bash_path, complete, password, cuPend>>

\* main.rs:84-87
PromptPassword ==
    /\ pc = "prompt_password"
    /\ \E ok \in BOOLEAN :
         IF ok
           THEN /\ \E p \in Passwords : password' = p
                /\ pc' = "create_dir"
                /\ UNCHANGED result
           ELSE /\ result' = "io::Error"
                /\ pc' = "done"
                /\ UNCHANGED password
    /\ UNCHANGED <<ret, pkgRet, cuRet, issued, warnings>>
    /\ UNCHANGED <<hostVars, dockerVars, inputVars, imageVars, peerVars>>
    /\ UNCHANGED <<guest, cand, bash_path, complete, user_name, cuPend>>

\* main.rs:71-72  register_distro: the data directory
CreateDirAll ==
    /\ pc = "create_dir"
    /\ \E ok \in BOOLEAN :
         IF ok
           THEN /\ pc' = "import"
                /\ UNCHANGED result
           ELSE /\ result' = "io::Error"
                /\ pc' = "done"
    /\ UNCHANGED <<ret, pkgRet, cuRet, issued, warnings>>
    /\ UNCHANGED <<hostVars, guestVars, dockerVars, inputVars, imageVars, peerVars>>

\* wsl.rs:230-242  one invocation of wsl.exe --import, with whether the host
\* had the name registered when it was made
import_attempt(by, r) ==
    [by |-> by, registered |-> install_name \in registry, r |-> r]

\* wsl.rs:230-242  register_distribution: wsl.exe --import; main.rs:77-78,
\* 89-91, 98-100: what install does with its result
WslImport ==
    /\ pc = "import"
    /\ \E r \in {"ok", "nonzero", "spawn_fail"} :
         /\ Log("wsl --import", install_name, r)
         /\ imports' = Append(imports, import_attempt("self", r))
         /\ CASE r = "spawn_fail" ->
                   /\ result' = "io::Error"
                   /\ pc' = "done"
                   /\ UNCHANGED <<registry, conf, imageVars>>
              [] r = "nonzero" ->
                   /\ result' = "Failed to register distribution"
                   /\ pc' = "done"
                   /\ UNCHANGED <<registry, conf, imageVars>>
              [] r = "ok" ->
                   /\ registry' = registry \cup {install_name}
                   /\ \E f \in FlagSets :
                        conf' = [version |-> 2, default_uid |-> 0, flags |-> f,
                                 env |-> DefaultEnv]
                   \* the guest is the imported image
                   /\ shellsPresent' \in SUBSET Range(shells)
                   /\ groupsPresent' \in SUBSET {"wheel", "sudo"}
                   /\ IF no_user
                        THEN /\ result' = "Ok"
                             /\ pc' = "done"
                        ELSE /\ pc' = "lookup_shell"
                             /\ UNCHANGED result
    /\ UNCHANGED <<ret, pkgRet, cuRet, warnings, read_conf, uid, memVars>>
    /\ UNCHANGED <<guestVars, dockerVars, inputVars, peer>>

----------------------------------------------------------------------------
(* What the guest's tools do to the guest *)

\* useradd -m <user>  (wsl.rs:249-255)
useradd(g, u) ==
    [g EXCEPT !.users = @ \cup {u},
              !.pw    = [x \in g.users \cup {u} |-> IF x \in g.users THEN g.pw[x] ELSE "locked"],
              !.home  = @ \cup {u}]

\* echo <user>:<pass> | chpasswd  (wsl.rs:277)
chpasswd(g, u, p) == [g EXCEPT !.pw[u] = p]

\* usermod -aG <group> <user>  (wsl.rs:293)
usermod(g, grp) == [g EXCEPT !.member = @ \cup {grp}]

\* userdel --remove <user>  (wsl.rs:268)
userdel(g, u) ==
    [g EXCEPT !.users  = @ \ {u},
              !.pw     = [x \in g.users \ {u} |-> g.pw[x]],
              !.home   = @ \ {u},
              !.member = IF u = user_name THEN {} ELSE @]

----------------------------------------------------------------------------
(* wsl.rs: create_user *)

\* faulty variant: install goes on whatever create_user returned
create_user_return_ignored(r) ==
    /\ cuRet' = r
    /\ pc' = "query_uid"
    /\ UNCHANGED result

\* create_user hands r to install: main.rs:91 propagates an error, and goes
\* on to query_uid otherwise
create_user_return(r) ==
    /\ cuRet' = r
    /\ IF r = "Ok"
         THEN /\ pc' = "query_uid"
              /\ UNCHANGED result
         ELSE /\ pc' = "done"
              /\ result' = r

\* wsl.rs:308-323  lookup_shell: one probe of file_exists, /usr/bin/test -e
FileExists ==
    /\ pc = "lookup_shell"
    /\ cand \in DOMAIN shells
    /\ \E hr \in {"S_OK", "E_FAIL"} :
         LET ec == IF shells[cand] \in shellsPresent THEN 0 ELSE 1 IN
         IF hr = "E_FAIL"
           THEN /\ Log("test -e", shells[cand], "host_fail")
                /\ create_user_return("HRESULT")
                /\ UNCHANGED <<cand, bash_path>>
           ELSE /\ Log("test -e", shells[cand], IF ec = 0 THEN "ok" ELSE "nonzero")
                /\ UNCHANGED <<cuRet, result>>
                /\ IF ec = 0
                     THEN /\ bash_path' = shells[cand]
                          /\ pc' = "useradd"
                          /\ UNCHANGED cand
                     ELSE /\ cand' = cand + 1
                          /\ pc' = IF cand + 1 \in DOMAIN shells
                                     THEN "lookup_shell" ELSE "useradd"
                          /\ UNCHANGED bash_path
    /\ UNCHANGED <<ret, pkgRet, warnings, cuPend>>
    /\ UNCHANGED <<hostVars, dockerVars, inputVars, imageVars, peerVars>>
    /\ UNCHANGED <<guest, complete, user_name, password>>

\* faulty variant: the exit code of useradd is not examined
useradd_failed_never(r) == FALSE

\* wsl.rs:258  if ec != 0
useradd_failed(r) == r # "ok"

\* wsl.rs:248-262  the account creation
UserAdd ==
    /\ pc = "useradd"
    /\ \E r \in {"ok", "nonzero", "host_fail"} :
         /\ Log("useradd", user_name, r)
         /\ guest' = IF r = "ok" THEN useradd(guest, user_name) ELSE guest
         /\ IF r = "host_fail"
              THEN /\ create_user_return("HRESULT")
                   /\ UNCHANGED complete
              ELSE IF useradd_failed(r)
                     THEN /\ create_user_return("Failed to add user.")
                          /\ UNCHANGED complete
                     ELSE /\ complete' = FALSE
                          /\ pc' = "chpasswd_root"
                          /\ UNCHANGED <<cuRet, result>>
    /\ UNCHANGED <<ret, pkgRet, warnings, cuPend>>
    /\ UNCHANGED <<hostVars, dockerVars, inputVars, imageVars, peerVars>>
    /\ UNCHANGED <<cand, bash_path, user_name, password>>

\* faulty variant: the exit code of chpasswd is not examined
change_password_failed_never(r) == FALSE

\* wsl.rs:280  if ec != 0
change_password_failed(r) == r # "ok"

\* wsl.rs:274-287  change_password(user, pass), called for root and the user
ChangePassword(at, user, next) ==
    /\ pc = at
    /\ \E r \in {"ok", "nonzero", "host_fail"} :
         /\ Log("chpasswd", user, r)
         /\ guest' = IF r = "ok" THEN chpasswd(guest, user, password) ELSE guest
         /\ IF r = "host_fail"
              THEN /\ cuPend' = "HRESULT"
                   /\ pc' = "cu_exit"
              ELSE IF change_password_failed(r)
                     THEN /\ cuPend' = "Failed to change password."
                          /\ pc' = "cu_exit"
                     ELSE /\ pc' = next
                          /\ UNCHANGED cuPend
    /\ UNCHANGED <<result, ret, pkgRet, cuRet, warnings>>
    /\ UNCHANGED <<hostVars, dockerVars, inputVars, imageVars, peerVars>>
    /\ UNCHANGED <<cand, bash_path, complete, user_name, password>>

\* faulty variant: a nonzero exit code of the group command is a failure
add_group_failed_on_nonzero(r) == r # "ok"

\* wsl.rs:300-301  add_group_if_exists(..)?: only a host error is propagated,
\* the guest's exit code is dropped
add_group_failed(r) == FALSE

\* wsl.rs:289-301  getent group <g> > /dev/null && usermod -aG <g> <user>
AddGroupIfExists(at, group, next) ==
    /\ pc = at
    /\ \E hr \in {"S_OK", "E_FAIL"}, usermod_ok \in BOOLEAN :
         LET r == IF hr = "E_FAIL" THEN "host_fail"
                  ELSE IF group \notin groupsPresent THEN "no_group"
                  ELSE IF usermod_ok THEN "ok" ELSE "usermod_failed"
         IN
         /\ Log("add_group", group, r)
         /\ guest' = IF r = "ok" THEN usermod(guest, group) ELSE guest
         /\ IF r = "host_fail"
              THEN /\ cuPend' = "HRESULT"
                   /\ pc' = "cu_exit"
              ELSE IF add_group_failed(r)
                     THEN /\ cuPend' = "Failed to add group."
                          /\ pc' = "cu_exit"
                     ELSE /\ pc' = next
                          /\ UNCHANGED cuPend
    /\ UNCHANGED <<result, ret, pkgRet, cuRet, warnings>>
    /\ UNCHANGED <<hostVars, dockerVars, inputVars, imageVars, peerVars>>
    /\ UNCHANGED <<cand, bash_path, complete, user_name, password>>

\* wsl.rs:303-305  the completion flag, then Ok(())
Complete ==
    /\ pc = "complete"
    /\ complete' = TRUE
    /\ cuPend' = "Ok"
    /\ pc' = "cu_exit"
    /\ UNCHANGED <<result, ret, pkgRet, cuRet, issued, warnings>>
    /\ UNCHANGED <<hostVars, dockerVars, inputVars, imageVars, peerVars>>
    /\ UNCHANGED <<guest, cand, bash_path, user_name, password>>

\* faulty variant: the rollback ignores the completion flag
rollback_always(c) == TRUE

\* wsl.rs:265  if !*complete.borrow()
rollback_needed(c) == ~c

\* wsl.rs:268  the user the rollback deletes
userdel_target(u) == u

\* wsl.rs:264-272  the deferred rollback, run when create_user is left, then
\* the return to install
Rollback ==
    /\ pc = "cu_exit"
    /\ IF rollback_needed(complete)
         THEN \E r \in {"ok", "nonzero", "host_fail"} :
                /\ Log("userdel", userdel_target(user_name), r)
                /\ guest' = IF r = "ok"
                              THEN userdel(guest, userdel_target(user_name))
                              ELSE guest
                /\ IF r = "host_fail"
                     THEN \* launch_interactive(..).unwrap() panics
                          /\ cuRet' = "panic"
                          /\ result' = "panic"
                          /\ pc' = "done"
                     ELSE create_user_return(cuPend)
         ELSE /\ create_user_return(cuPend)
              /\ UNCHANGED <<issued, guest>>
    /\ UNCHANGED <<ret, pkgRet, warnings, cuPend>>
    /\ UNCHANGED <<hostVars, dockerVars, inputVars, imageVars, peerVars>>
    /\ UNCHANGED <<cand, bash_path, complete, user_name, password>>

----------------------------------------------------------------------------
(* main.rs: install, the default user *)

\* wsl.rs:325-339  query_uid: wsl.exe -d <name> -- /usr/bin/id -u <user>;
\* main.rs:92 (install) and main.rs:202 (set-default-user)
QueryUid ==
    /\ pc = "query_uid"
    /\ \E r \in {"ok", "unparsable", "nonzero", "spawn_fail"} :
         /\ (r \in {"ok", "unparsable"} => install_name \in registry)
         /\ Log("id -u", user_name, r)
         /\ CASE r = "spawn_fail" -> result' = "io::Error" /\ pc' = "done" /\ UNCHANGED uid
              [] r = "nonzero"    -> result' = "Failed to get uid" /\ pc' = "done" /\ UNCHANGED uid
              [] r = "unparsable" -> result' = "ParseIntError" /\ pc' = "done" /\ UNCHANGED uid
              [] r = "ok"         -> /\ \E n \in Uids : uid' = n
                                     /\ pc' = "get_conf"
                                     /\ UNCHANGED result
    /\ UNCHANGED <<ret, pkgRet, cuRet, warnings, registry, conf, read_conf, memVars>>
    /\ UNCHANGED <<guestVars, dockerVars, inputVars, imageVars, peerVars>>

\* wsl.rs:156-157  CStr::from_ptr(..).to_string_lossy().to_string(): bytes
\* that are not UTF-8 are replaced by U+FFFD
to_string_lossy(str) ==
    IF str = "NAME=<93 FA>" THEN "NAME=<U+FFFD U+FFFD>" ELSE str

\* wsl.rs:129-152  get_distribution_configuration: the host call, which
\* allocates the array and one string per variable; called at main.rs:94, 203
HostGetConfiguration ==
    /\ pc = "get_conf"
    /\ \E hr \in {"S_OK", "E_FAIL"} :
         /\ (hr = "S_OK" => install_name \in registry)
         /\ Log("get_configuration", install_name, IF hr = "S_OK" THEN "ok" ELSE "host_fail")
         /\ IF hr = "S_OK"
              THEN /\ read_conf' = [conf EXCEPT !.env = << >>]
                   /\ heap' = [allocated |-> TRUE, arrFrees |-> 0,
                               strFrees |-> [i \in 1..Len(conf.env) |-> 0]]
                   /\ env_vars' = << >>
                   /\ gi' = 1
                   /\ pc' = IF Len(conf.env) = 0 THEN "gc_free" ELSE "gc_copy"
                   /\ UNCHANGED result
              ELSE /\ result' = "HRESULT"
                   /\ pc' = "done"
                   /\ UNCHANGED <<read_conf, heap, env_vars, gi>>
    /\ UNCHANGED <<ret, pkgRet, cuRet, warnings, registry, conf, uid, uaf>>
    /\ UNCHANGED <<guestVars, dockerVars, inputVars, imageVars, peerVars>>

\* wsl.rs:154-159  one string copied into owned memory
CopyEnvVar ==
    /\ pc = "gc_copy"
    /\ gi <= Len(heap.strFrees)
    /\ env_vars' = Append(env_vars, to_string_lossy(conf.env[gi]))
    /\ uaf' = (uaf \/ heap.arrFrees > 0 \/ heap.strFrees[gi] > 0)
    /\ gi' = IF gi = Len(heap.strFrees) THEN 1 ELSE gi + 1
    /\ pc' = IF gi = Len(heap.strFrees) THEN "gc_free" ELSE "gc_copy"
    /\ UNCHANGED <<result, ret, pkgRet, cuRet, issued, warnings>>
    /\ UNCHANGED <<registry, conf, read_conf, uid, heap>>
    /\ UNCHANGED <<guestVars, dockerVars, inputVars, imageVars, peerVars>>

\* faulty variant: the loop stops one string short
free_count_short(n) == IF n > 0 THEN n - 1 ELSE 0

\* wsl.rs:162  for i in 0..defaultenvironmentvariablecount
free_count(n) == n

\* wsl.rs:162-164  CoTaskMemFree of one string
FreeEnvVar ==
    /\ pc = "gc_free"
    /\ gi <= free_count(Len(heap.strFrees))
    /\ heap' = [heap EXCEPT !.strFrees[gi] = @ + 1]
    /\ uaf' = (uaf \/ heap.arrFrees > 0)
    /\ gi' = gi + 1
    /\ UNCHANGED <<pc, result, ret, pkgRet, cuRet, issued, warnings>>
    /\ UNCHANGED <<registry, conf, read_conf, uid, env_vars>>
    /\ UNCHANGED <<guestVars, dockerVars, inputVars, imageVars, peerVars>>

\* wsl.rs:165-173  CoTaskMemFree of the array, then the record is returned
FreeArray ==
    /\ pc = "gc_free"
    /\ gi > free_count(Len(heap.strFrees))
    /\ heap' = [heap EXCEPT !.arrFrees = @ + 1]
    /\ read_conf' = [read_conf EXCEPT !.env = env_vars]
    /\ pc' = "configure"
    /\ UNCHANGED <<result, ret, pkgRet, cuRet, issued, warnings>>
    /\ UNCHANGED <<registry, conf, uid, env_vars, gi, uaf>>
    /\ UNCHANGED <<guestVars, dockerVars, inputVars, imageVars, peerVars>>

\* main.rs:95, 204  `uid as _`: the u64 is truncated to the u32 the host takes
uid_as_u32(u) == u.lo

\* faulty variant: the default flags are passed instead of those read
configure_flags_default(rc) == 7

\* main.rs:95, 204  conf.wsl_distribution_flags
configure_flags(rc) == rc.flags

\* wsl.rs:109-123  configure_distribution, called at main.rs:95 and 204 with
\* the uid queried and the flags read; the host call sets these two fields
Configure ==
    /\ pc = "configure"
    /\ \E hr \in {"S_OK", "E_FAIL"} :
         LET args == [default_uid |-> uid_as_u32(uid), flags |-> configure_flags(read_conf)] IN
         /\ Log("configure", args, IF hr = "S_OK" THEN "ok" ELSE "host_fail")
         /\ IF hr = "S_OK"
              THEN /\ conf' = [conf EXCEPT !.default_uid = args.default_uid,
                                           !.flags = args.flags]
                   /\ result' = "Ok"
              ELSE /\ result' = "HRESULT"
                   /\ UNCHANGED conf
         /\ pc' = "done"
    /\ UNCHANGED <<ret, pkgRet, cuRet, warnings, registry, read_conf, uid, memVars>>
    /\ UNCHANGED <<guestVars, dockerVars, inputVars, imageVars, peerVars>>

----------------------------------------------------------------------------
Next ==
    \/ IsRegisteredCheck
    \/ InstallTempFile
    \/ DockerPull
    \/ DockerCreate
    \/ NewTempFile
    \/ ExportSpawn
    \/ FileCreate
    \/ ExportWrite
    \/ ExportExit
    \/ CopyChunk
    \/ CopyEOF
    \/ ChildWait
    \/ Persist
    \/ DockerRm
    \/ PromptUser
    \/ PromptPassword
    \/ CreateDirAll
    \/ WslImport
    \/ FileExists
    \/ UserAdd
    \/ ChangePassword("chpasswd_root", "root", "chpasswd_user")
    \/ ChangePassword("chpasswd_user", user_name, "group_wheel")
    \/ AddGroupIfExists("group_wheel", "wheel", "group_sudo")
    \/ AddGroupIfExists("group_sudo", "sudo", "complete")
    \/ Complete
    \/ Rollback
    \/ QueryUid
    \/ HostGetConfiguration
    \/ CopyEnvVar
    \/ FreeEnvVar
    \/ FreeArray
    \/ Configure

Spec == Init /\ [][Next]_vars

----------------------------------------------------------------------------
(* The packaging alone, as `download` runs it, with the progress its two *)
(* processes make: the tool's thread takes its next step when it can, and  *)
(* docker export writes when the pipe has room and exits when it is done.  *)

InitDownload == Init /\ cmd = "download"

NextPackaging ==
    \/ DockerPull
    \/ DockerCreate
    \/ NewTempFile
    \/ ExportSpawn
    \/ FileCreate
    \/ ExportWrite
    \/ ExportExit
    \/ CopyChunk
    \/ CopyEOF
    \/ ChildWait
    \/ Persist
    \/ DockerRm

SpecPackaging ==
    /\ InitDownload
    /\ [][NextPackaging]_vars
    /\ WF_vars(CopyChunk)
    /\ WF_vars(CopyEOF)
    /\ WF_vars(ChildWait)
    /\ WF_vars(ExportWrite)
    /\ WF_vars(ExportExit /\ remaining = 0)

----------------------------------------------------------------------------
(* Two `install` processes of the same name.  The second one is followed   *)
(* through the steps that read or write the host's registry; nothing       *)
(* orders its steps against the first one's.                               *)

\* main.rs:55-57  the second process's precondition check
PeerIsRegisteredCheck ==
    /\ peer = "is_registered"
    /\ peer' = IF is_distribution_registered(install_name) THEN "done" ELSE "packaging"
    /\ UNCHANGED <<pc, result, ret, pkgRet, cuRet, issued, warnings, imports>>
    /\ UNCHANGED <<hostVars, guestVars, dockerVars, inputVars, imageVars>>

\* main.rs:63-87  its packaging and prompts, which succeed or fail
PeerPackaging ==
    /\ peer = "packaging"
    /\ peer' \in {"import", "done"}
    /\ UNCHANGED <<pc, result, ret, pkgRet, cuRet, issued, warnings, imports>>
    /\ UNCHANGED <<hostVars, guestVars, dockerVars, inputVars, imageVars>>

\* main.rs:70-75, wsl.rs:230-242  its wsl.exe --import.  The host registers
\* an unregistered name when the import succeeds; what it answers for a
\* registered name is not defined, and the registration stays.
PeerImport ==
    /\ peer = "import"
    /\ \E r \in {"ok", "nonzero", "spawn_fail"} :
         /\ imports' = Append(imports, import_attempt("peer", r))
         /\ IF r = "ok" /\ install_name \notin registry
              THEN /\ registry' = registry \cup {install_name}
                   /\ \E f \in FlagSets :
                        conf' = [version |-> 2, default_uid |-> 0, flags |-> f,
                                 env |-> DefaultEnv]
              ELSE UNCHANGED <<registry, conf>>
    /\ peer' = "done"
    /\ UNCHANGED <<pc, result, ret, pkgRet, cuRet, issued, warnings>>
    /\ UNCHANGED <<read_conf, uid, memVars>>
    /\ UNCHANGED <<guestVars, dockerVars, inputVars, imageVars>>

InitPeers == InitProcess /\ cmd = "install" /\ peer = "is_registered"

\* main.rs:55-89  the first process up to and including its import
NextPeers ==
    \/ IsRegisteredCheck
    \/ InstallTempFile
    \/ NextPackaging
    \/ PromptUser
    \/ PromptPassword
    \/ CreateDirAll
    \/ WslImport
    \/ PeerIsRegisteredCheck
    \/ PeerPackaging
    \/ PeerImport

SpecPeers == InitPeers /\ [][NextPeers]_vars

----------------------------------------------------------------------------
(* Properties of user provisioning (create_user) *)

HostFailures ==
    {i \in DOMAIN issued : issued[i].r = "host_fail"}

AccountCreated == IssuedR("useradd", "ok") # {}

\* C1: once useradd has succeeded, every failure of a later step issues
\* userdel --remove for exactly the user name given to create_user, exactly
\* once; a successful create_user issues it zero times (and it is never
\* issued twice while the function runs).
C1_RollbackExactlyOnce ==
    /\ Cardinality(Issued("userdel")) <= 1
    /\ (cuRet # "none" /\ AccountCreated) =>
          IF cuRet = "Ok"
            THEN Issued("userdel") = {}
            ELSE /\ Cardinality(Issued("userdel")) = 1
                 /\ \A i \in Issued("userdel") : issued[i].a = user_name

\* the user-password step exits nonzero and the rollback has run
C1_Witness ==
    /\ cuRet = "Failed to change password."
    /\ \E i \in IssuedR("chpasswd", "nonzero") : issued[i].a = user_name
    /\ \E i \in Issued("userdel") : issued[i].a = user_name

\* C2: if the account creation does not succeed (a shell probe or the useradd
\* launch fails at the host, or useradd exits nonzero), no userdel and no
\* password or group command is ever issued.
C2_NoRollbackWithoutAccount ==
    ~AccountCreated =>
        Issued("userdel") \cup Issued("chpasswd") \cup Issued("add_group") = {}

\* useradd exited nonzero and create_user has returned
C2_Witness ==
    /\ cuRet = "Failed to add user."
    /\ IssuedR("useradd", "nonzero") # {}

\* C3: a missing group is not an error.  When useradd and both chpasswd steps
\* succeed and no host launch fails, create_user returns Ok, issues no
\* userdel, and the user is a member of exactly the groups whose usermod
\* ran and succeeded, all of which exist in the guest.
C3_MissingGroupNotAnError ==
    (/\ cuRet # "none"
     /\ AccountCreated
     /\ Cardinality(IssuedR("chpasswd", "ok")) = 2
     /\ HostFailures = {})
    => /\ cuRet = "Ok"
       /\ Issued("userdel") = {}
       /\ guest.member \subseteq groupsPresent
       /\ guest.member = {issued[i].a : i \in IssuedR("add_group", "ok")}

\* alice, wheel missing, sudo present: COMPLETE, member of sudo only
C3_Witness ==
    /\ cuRet = "Ok"
    /\ user_name = "alice"
    /\ groupsPresent = {"sudo"}
    /\ guest.member = {"sudo"}
    /\ IssuedR("add_group", "no_group") # {}

\* C4, as claimed: when a group exists in the guest and the usermod adding the
\* user to it exits nonzero, create_user returns an error and the rollback
\* deletes the account.
C4_UsermodFailureIsFailure ==
    (cuRet # "none" /\ IssuedR("add_group", "usermod_failed") # {})
    => (cuRet # "Ok" /\ Issued("userdel") # {})

\* C4, amended: a nonzero exit code of a chpasswd step makes create_user fail
\* and issue the rollback; the exit code of a group-join command is not
\* examined, so with no failing host launch a failing usermod leaves
\* create_user returning Ok with the account kept.
C4_ExitCodeHandling ==
    /\ (cuRet # "none" /\ IssuedR("chpasswd", "nonzero") # {})
         => (cuRet # "Ok" /\ Cardinality(Issued("userdel")) = 1)
    /\ (/\ cuRet # "none"
        /\ IssuedR("add_group", "usermod_failed") # {}
        /\ HostFailures = {})
         => /\ cuRet = "Ok"
            /\ Issued("userdel") = {}
            /\ user_name \in guest.users

\* sudo exists, its usermod exited nonzero, create_user returned Ok
C4_Witness ==
    /\ cuRet = "Ok"
    /\ \E i \in IssuedR("add_group", "usermod_failed") : issued[i].a = "sudo"
    /\ "sudo" \notin guest.member
    /\ user_name \in guest.users

\* C5, as claimed: whenever create_user returns an error the guest is exactly
\* what it was before the call: no new account, no home directory, every
\* pre-existing credential (the root password included) unchanged.
C5_FailureLeavesGuestUntouched ==
    (cuRet \notin {"none", "Ok", "panic"}) => guest = GuestInit

\* C9, as claimed: when the userdel launch of the rollback fails at the host,
\* the caller is not crashed and create_user returns the error of the step
\* that failed.
C9_RollbackToleratesItsFailure ==
    (IssuedR("userdel", "host_fail") # {})
    => (result # "panic" /\ cuRet = cuPend)

----------------------------------------------------------------------------
(* Properties of install *)

\* C6, as claimed: for a name that was not registered before, an install that
\* returns an error leaves the name unregistered and leaves no account created
\* by this run.
C6_InstallAllOrNothing ==
    (/\ cmd = "install"
     /\ pc = "done"
     /\ result \notin {"Ok", "panic", "Distribution is already registered"})
    => /\ install_name \notin registry
       /\ user_name \notin guest.users

----------------------------------------------------------------------------
(* Properties of the packaging (get_distribution_rootfs_tar_gz) *)

ContainerCreated == IssuedR("docker create", "ok") # {}

PullFailed ==
    IssuedR("docker pull", "nonzero") \cup IssuedR("docker pull", "spawn_fail") # {}

\* C7: once docker create has succeeded and returned an id, docker rm is
\* issued for exactly that id exactly once however the rest of the function
\* ends; it is issued zero times when pull or create fails (and never twice).
C7_ContainerRemovedExactlyOnce ==
    /\ Cardinality(Issued("docker rm")) <= 1
    /\ pkgRet # "none" =>
          IF ContainerCreated
            THEN /\ Cardinality(Issued("docker rm")) = 1
                 /\ \A i \in Issued("docker rm") : issued[i].a = id
            ELSE Issued("docker rm") = {}

\* the export exited nonzero and the container was removed
C7_Witness ==
    /\ pkgRet = "Failed to save distribution tarball"
    /\ \E i \in IssuedR("docker rm", "ok") : issued[i].a = id
    /\ id \notin containers

\* C8, as claimed: a failing docker rm (nonzero exit, or not startable) never
\* changes the outcome of the packaging and never aborts the program.
C8_CleanupFailureNotEscalated ==
    (/\ pkgRet # "none"
     /\ IssuedR("docker rm", "nonzero") \cup IssuedR("docker rm", "spawn_fail") # {})
    => (pkgRet = ret /\ result # "panic")

C11_PersistOnlyAfterSuccess ==
    /\ dest.kind = "tarball" => (child = "reaped_ok" /\ pipe = 0)
    /\ (pkgRet # "none" /\ ret \notin {"Ok", "PersistError"})
         => /\ dest = IF cmd = "install"
                        THEN [kind |-> "empty", chunks |-> 0] ELSE DestInit
            /\ temp_file \in {"none", "deleted"}

\* the export exited nonzero after the copy: nothing persisted, nothing left
C11_Witness ==
    /\ pkgRet = "Failed to save distribution tarball"
    /\ child = "reaped_fail"
    /\ gz > 0
    /\ temp_file = "deleted"
    /\ dest.kind # "tarball"

----------------------------------------------------------------------------
(* Properties of install, continued *)

\* C12: when the install name is already registered as install starts, install
\* fails with the "already registered" error before any side effect: no pull,
\* no container, no import, no in-guest command, no configure call, no file.
C12_AlreadyRegisteredFailsFirst ==
    (/\ cmd = "install"
     /\ install_name \in registry
     /\ IssuedR("wsl --import", "ok") = {})
    => /\ issued = << >>
       /\ dest = DestInit
       /\ containers = {}
       /\ guest = GuestInit
       /\ pc = "done" => result = "Distribution is already registered"

\* install has ended on the precondition
C12_Witness ==
    /\ cmd = "install"
    /\ pc = "done"
    /\ result = "Distribution is already registered"
    /\ install_name \in registry

----------------------------------------------------------------------------
(* Properties of the default-user update (install, set-default-user) *)

\* C13: updating the default user changes only default_uid.  Every configure
\* call directly follows a successful get_configuration and passes exactly the
\* flags that call returned; a successful configure leaves the version, the
\* flags and the default environment variables of the distribution as they
\* were, and leaves the whole configuration as it was when the uid passed is
\* the one already set.
C13_OnlyDefaultUidChanges ==
    /\ [](\A i \in Issued("configure") :
             /\ i > 1
             /\ issued[i - 1].c = "get_configuration"
             /\ issued[i - 1].r = "ok"
             /\ issued[i].a.flags = read_conf.flags)
    /\ [][(pc = "configure" /\ result' = "Ok")
            => /\ conf'.flags = conf.flags
               /\ conf'.env = conf.env
               /\ conf'.version = conf.version
               /\ conf'.default_uid = uid.lo
               /\ (uid.lo = conf.default_uid => conf' = conf)]_vars

\* set-default-user committed a uid on a distribution with non-default flags
\* and two environment variables
C13_Witness ==
    /\ cmd = "set-default-user"
    /\ IssuedR("configure", "ok") # {}
    /\ conf.flags = 0
    /\ Len(conf.env) = 2
    /\ conf.default_uid = 1000

----------------------------------------------------------------------------
(* Properties of get_distribution_configuration *)

ConfigurationReturned ==
    IssuedR("get_configuration", "ok") # {} /\ pc \notin {"gc_copy", "gc_free"}

HostMemoryReleased ==
    /\ ~uaf
    /\ heap.arrFrees <= 1
    /\ \A i \in DOMAIN heap.strFrees : heap.strFrees[i] <= 1
    /\ ConfigurationReturned =>
         /\ heap.arrFrees = 1
         /\ Len(heap.strFrees) = Len(conf.env)
         /\ \A i \in DOMAIN heap.strFrees : heap.strFrees[i] = 1
    /\ IssuedR("get_configuration", "host_fail") # {} =>
         /\ heap = HeapInit
         /\ result = "HRESULT"

\* C17, as claimed: when the host call succeeds with n strings, each string
\* and the array are freed exactly once, no host pointer is read after its
\* free, and the returned sequence contains the n strings in the host's order;
\* when the host call fails nothing is freed and an error is returned.
C17_ReturnsTheHostStrings ==
    /\ HostMemoryReleased
    /\ ConfigurationReturned =>
         /\ Len(read_conf.env) = Len(conf.env)
         /\ \A i \in DOMAIN conf.env : read_conf.env[i] = conf.env[i]

\* C17, amended: as claimed, except that the returned sequence contains, in
\* the host's order, the lossy UTF-8 decoding of the n strings: a string that
\* is valid UTF-8 is returned as it is, in any other string every invalid
\* byte sequence is replaced by U+FFFD.
C17_ReturnsTheDecodedStrings ==
    /\ HostMemoryReleased
    /\ ConfigurationReturned =>
         /\ Len(read_conf.env) = Len(conf.env)
         /\ \A i \in DOMAIN conf.env :
               read_conf.env[i] = IF conf.env[i] = "NAME=<93 FA>"
                                    THEN "NAME=<U+FFFD U+FFFD>"
                                    ELSE conf.env[i]

\* two strings were returned and released, the second one decoded lossily
C17_Witness ==
    /\ pc = "configure"
    /\ heap.arrFrees = 1
    /\ heap.strFrees = <<1, 1>>
    /\ read_conf.env = <<"PATH=/usr/bin", "NAME=<U+FFFD U+FFFD>">>

----------------------------------------------------------------------------
(* Properties of install: the order of its steps *)

GuestCommands ==
    Issued("test -e") \cup Issued("useradd") \cup Issued("chpasswd")
      \cup Issued("add_group") \cup Issued("userdel") \cup Issued("id -u")

\* C14: in install, when create_user fails the install fails, and neither the
\* uid query nor get_configuration nor configure is attempted; configure is
\* attempted only after create_user returned Ok and the uid query succeeded.
C14_NoDefaultUidAfterFailure ==
    cmd = "install" =>
      /\ cuRet \notin {"none", "Ok"} =>
           /\ pc = "done"
           /\ result \notin {"Ok", "running"}
           /\ Issued("id -u") \cup Issued("get_configuration") \cup Issued("configure") = {}
      /\ Issued("configure") # {} =>
           /\ cuRet = "Ok"
           /\ IssuedR("id -u", "ok") # {}

\* bob, the root-password step exits nonzero: userdel --remove bob, failure
C14_Witness ==
    /\ cmd = "install"
    /\ user_name = "bob"
    /\ \E i \in IssuedR("chpasswd", "nonzero") : issued[i].a = "root"
    /\ \E i \in Issued("userdel") : issued[i].a = "bob"
    /\ result = "Failed to change password."

\* C20: in install without --no-user the user name and the password are
\* obtained before the registration: while either is missing no import is
\* attempted and no in-guest command is issued, a failed prompt ends install
\* with an error, a successful registration is directly followed by
\* create_user, and useradd is given the name obtained.
C20_PromptsBeforeRegistration ==
    (cmd = "install" /\ ~no_user) =>
      /\ (user_name = None \/ password = None) =>
           /\ Issued("wsl --import") = {}
           /\ GuestCommands = {}
           /\ pc = "done" => result \notin {"Ok", "running"}
      /\ IssuedR("wsl --import", "ok") # {} =>
           /\ user_name \in UserNames
           /\ password \in Passwords
           /\ issued[Len(issued)].c = "wsl --import" => pc = "lookup_shell"
           /\ pc = "done" => cuRet # "none"
           /\ \A i \in Issued("useradd") : issued[i].a = user_name

\* the password prompt failed after the packaging: nothing was registered
C20_Witness ==
    /\ cmd = "install"
    /\ ~no_user
    /\ pkgRet = "Ok"
    /\ user_name \in UserNames
    /\ password = None
    /\ pc = "done"
    /\ result = "io::Error"

----------------------------------------------------------------------------
(* Properties of lookup_shell *)

Preference == <<"/usr/bin/bash", "/bin/bash", "/usr/bin/sh", "/bin/sh">>

Existing == {k \in DOMAIN Preference : Preference[k] \in shellsPresent}

FirstExisting ==
    IF Existing = {} THEN None
    ELSE Preference[CHOOSE k \in Existing : \A j \in Existing : k <= j]

Probes == Issued("test -e")

\* C15: lookup_shell returns the first existing candidate in the order
\* /usr/bin/bash, /bin/bash, /usr/bin/sh, /bin/sh, and None when none exists;
\* it probes the candidates in that order and issues no probe after the
\* first match.
C15_FirstExistingShell ==
    /\ \A i \in Probes :
          /\ \A j \in Probes : j < i => issued[j].r = "nonzero"
          /\ issued[i].a = Preference[Cardinality({j \in Probes : j <= i})]
          /\ issued[i].r # "host_fail" =>
                (issued[i].r = "ok" <=> issued[i].a = FirstExisting)
    /\ (pc = "useradd" \/ Issued("useradd") # {}) =>
          /\ bash_path = FirstExisting
          /\ Cardinality(Probes) =
                IF Existing = {} THEN Len(Preference)
                ELSE CHOOSE k \in Existing : \A j \in Existing : k <= j

\* /bin/bash and /bin/sh exist: two probes, /bin/bash returned
C15_Witness ==
    /\ pc = "useradd"
    /\ shellsPresent = {"/bin/bash", "/bin/sh"}
    /\ bash_path = "/bin/bash"
    /\ Cardinality(Probes) = 2

----------------------------------------------------------------------------
(* Properties of the packaging, continued *)

\* C18, as claimed: docker rm is never issued while the export process
\* spawned for the container is still running: on every path after the spawn
\* the export process has been waited for before the removal runs.
C18_RemovalAfterExportWaited ==
    (Issued("docker rm") # {} /\ IssuedR("docker export", "ok") # {})
    => child \in {"reaped_ok", "reaped_fail"}

\* C16: the export/compress pair cannot deadlock.  With a pipe of bounded
\* capacity, once the copy has started it is eventually left and the wait on
\* the export process returns, whenever the export process keeps writing
\* while the pipe has room and exits when it has written everything.
C16_PipelineTerminates ==
    (pc \in {"copy", "wait"}) ~> (pc \in {"persist", "rm", "done"})

\* the export process wrote more than the pipe holds, so it was drained while
\* the process was running, and the copy and the wait have both returned
C16_Witness ==
    /\ pc = "persist"
    /\ child = "reaped_ok"
    /\ gz > PipeCap
    /\ pipe = 0

\* C19 as stated: with two install processes of one name, no import is
\* attempted while the name is registered, and at most one of the two
\* processes invokes the import.
C19_NoWindowBetweenCheckAndImport ==
    /\ \A i \in 1..Len(imports) : ~imports[i].registered
    /\ \A i, j \in 1..Len(imports) : imports[i].by = imports[j].by

\* C19: each process checks before anything else, so a name registered
\* before the processes started is never imported; an import is attempted
\* for a registered name only when the other process's import registered it
\* after this process's check.
C19_CheckedBeforeImport ==
    \A i \in 1..Len(imports) :
        imports[i].registered =>
            \E j \in 1..(i - 1) :
                /\ imports[j].by # imports[i].by
                /\ imports[j].r = "ok"
                /\ ~imports[j].registered

\* both processes passed the check, one registered the name and the other
\* then invoked the import for it
C19_Witness ==
    /\ Len(imports) = 2
    /\ imports[1].by # imports[2].by
    /\ imports[1].r = "ok"
    /\ imports[2].registered

====
